---- MODULE Spec2Model ----
(***************************************************************************)
(* Model of the notes data-access facade, services/api.ts: the five public *)
(* operations (listNotes, getNote, createNote, updateNote, deleteNote),    *)
(* the live attempt (tryLive), the localStorage adapter (readLocal,        *)
(* writeLocal, seedInitial, genId) and normalize.                          *)
(*                                                                         *)
(* A facade call runs in two steps: Call (the synchronous part up to       *)
(* `await tryLive(...)`) and Resume (everything after the await, which is  *)
(* synchronous and therefore one step).  Several calls may be pending.     *)
(***************************************************************************)
EXTENDS Integers, Sequences, FiniteSets, TLC

VARIABLES env, storage, clock, pending, started, last

vars == <<env, storage, clock, pending, started, last>>

----------------------------------------------------------------------------
(* Bounds of the model. *)

\* how many times Date.now() advances
MaxTicks == 1
\* how many facade calls may be awaiting their live attempt at once
MaxPending == 2
\* how many facade calls are started in one behaviour
MaxOps == 2

----------------------------------------------------------------------------
(* Values. *)

\* `undefined` in a string-typed and in a number-typed field of a Note.
UndefS == "<undefined>"
UndefN == -1

\* Date.now() at the start of a behaviour (epoch milliseconds, scaled to fit).
T0 == 100000000

Keys == {"id", "title", "content", "createdAt", "updatedAt"}
NumKeys == {"createdAt", "updatedAt"}

Undefined(k) == IF k \in NumKeys THEN UndefN ELSE UndefS

Note(i, t, c, ca, ua) ==
    [id |-> i, title |-> t, content |-> c, createdAt |-> ca, updatedAt |-> ua]

\* a placeholder where a result carries no note
NoNote == Note(UndefS, UndefS, UndefS, UndefN, UndefN)

\* the ids genId may return; it draws them at random and never looks at the store
GenIds == {"a", "b"}

STORAGE_KEY == "notes_frontend__notes"

----------------------------------------------------------------------------
(* JSON: JSON.stringify drops the properties whose value is undefined, and *)
(* reading a property the parsed object lacks yields undefined.            *)

JSONstringifyNote(n) ==
    [k \in {x \in Keys : n[x] # Undefined(x)} |-> n[k]]

JSONstringify(notes) ==
    [i \in 1..Len(notes) |-> JSONstringifyNote(notes[i])]

Prop(o, k) == IF k \in DOMAIN o THEN o[k] ELSE Undefined(k)

JSONparseNote(o) ==
    Note(Prop(o, "id"), Prop(o, "title"), Prop(o, "content"),
         Prop(o, "createdAt"), Prop(o, "updatedAt"))

JSONparse(arr) ==
    [i \in 1..Len(arr) |-> JSONparseNote(arr[i])]

----------------------------------------------------------------------------
(* Backend locator. *)

\* no base address resolves (getApiBase returns null)
NoBase == "<null>"

\* env is <<PUBLIC_API_BASE_URL, PUBLIC_BACKEND_URL, window.__API_BASE_URL__>>;
\* "" stands for a source that is unset or empty (falsy).
Envs ==
    { <<"", "", "">>,
      <<"", "http://alias", "http://win">> }

\* candidates = [...].filter(Boolean); candidates.length ? String(candidates[0]) : null
getApiBase(e) ==
    LET candidates == SelectSeq(e, LAMBDA x : x # "")
    IN  IF Len(candidates) > 0 THEN candidates[1] ELSE NoBase

----------------------------------------------------------------------------
(* Completions: how a function ends.  ret says what it returned ("void",   *)
(* "null", "note" or "list"); threw says that it threw instead, and err    *)
(* what: "transport" (an error raised inside the live attempt),            *)
(* "NotFound" (Error('Note not found')) or "TypeError".                    *)

Return(ret, note, list) ==
    [threw |-> FALSE, err |-> "none", ret |-> ret, note |-> note, list |-> list]

Throw(err) ==
    [threw |-> TRUE, err |-> err, ret |-> "void", note |-> NoNote, list |-> <<>>]

----------------------------------------------------------------------------
(* Remote transport.  A response is what the one fetch of a call yields:   *)
(* net = TRUE when fetch itself rejects (network error); otherwise an HTTP *)
(* status, and a body that res.json() parses (to `note` or `list`) or      *)
(* fails to parse.                                                         *)

Resp(net, status, parsable, note, list) ==
    [net |-> net, status |-> status, parsable |-> parsable,
     note |-> note, list |-> list]

\* records a backend may send: fields it omits read as undefined
LiveA == Note("a", "T1", UndefS, UndefN, T0 - 2)
LiveB == Note("b", UndefS, "c1", T0 - 1, T0 - 1)

\* no fetch was made
NoResponse == Resp(FALSE, 0, FALSE, NoNote, <<>>)

NetworkError == Resp(TRUE, 0, FALSE, NoNote, <<>>)

\* a response whose body is empty or is not JSON
BadBody(status) == Resp(FALSE, status, FALSE, NoNote, <<>>)

OkNote(n) == Resp(FALSE, 200, TRUE, n, <<>>)
OkList(l) == Resp(FALSE, 200, TRUE, NoNote, l)

\* the responses each request may get
RespsList ==
    {NetworkError, BadBody(200), BadBody(500), OkList(<<LiveA, LiveB>>)}
RespsGet == {NetworkError, BadBody(200), BadBody(404), BadBody(500), OkNote(LiveA)}
RespsCreate == {NetworkError, BadBody(201), BadBody(500), OkNote(LiveB)}
RespsUpdate == {NetworkError, BadBody(200), BadBody(404), OkNote(LiveA)}
RespsDelete == {NetworkError, BadBody(204), BadBody(404), BadBody(500)}

\* the one response of a call: none when no base address resolves
Responses(base, resps) == IF base = NoBase THEN {NoResponse} ELSE resps

\* res.ok
ok(status) == status \in 200..299

\* the callback listNotes hands to tryLive
listLive(r) ==
    IF r.net THEN Throw("transport")
    ELSE IF ~ok(r.status) THEN Throw("transport")
    ELSE IF ~r.parsable THEN Throw("transport")
    ELSE Return("list", NoNote, r.list)

\* getLive without its 404 case: 404 is a failure like any other non-2xx
getLive_No404(r) ==
    IF r.net THEN Throw("transport")
    ELSE IF ~ok(r.status) THEN Throw("transport")
    ELSE IF ~r.parsable THEN Throw("transport")
    ELSE Return("note", r.note, <<>>)

\* the callback getNote hands to tryLive
getLive(r) ==
    IF r.net THEN Throw("transport")
    ELSE IF r.status = 404 THEN Return("null", NoNote, <<>>)
    ELSE IF ~ok(r.status) THEN Throw("transport")
    ELSE IF ~r.parsable THEN Throw("transport")
    ELSE Return("note", r.note, <<>>)

\* the callback createNote hands to tryLive
createLive(r) ==
    IF r.net THEN Throw("transport")
    ELSE IF ~ok(r.status) THEN Throw("transport")
    ELSE IF ~r.parsable THEN Throw("transport")
    ELSE Return("note", r.note, <<>>)

\* the callback updateNote hands to tryLive
updateLive(r) ==
    IF r.net THEN Throw("transport")
    ELSE IF ~ok(r.status) THEN Throw("transport")
    ELSE IF ~r.parsable THEN Throw("transport")
    ELSE Return("note", r.note, <<>>)

\* deleteLive without its 404 case: 404 is a failure like any other non-2xx
deleteLive_No404(r) ==
    IF r.net THEN Throw("transport")
    ELSE IF ~ok(r.status) THEN Throw("transport")
    ELSE Return("void", NoNote, <<>>)

\* the callback deleteNote hands to tryLive: the body is never read
deleteLive(r) ==
    IF r.net THEN Throw("transport")
    ELSE IF r.status = 404 THEN Return("void", NoNote, <<>>)
    ELSE IF ~ok(r.status) THEN Throw("transport")
    ELSE Return("void", NoNote, <<>>)

\* tryLive whose catch reports success with no data
tryLive_CatchAsOk(base, f) ==
    IF base = NoBase
    THEN [threw |-> FALSE, ok |-> FALSE, data |-> Return("null", NoNote, <<>>), reqs |-> 0]
    ELSE IF f.threw
         THEN [threw |-> FALSE, ok |-> TRUE, data |-> Return("null", NoNote, <<>>), reqs |-> 1]
         ELSE [threw |-> FALSE, ok |-> TRUE, data |-> f, reqs |-> 1]

\* tryLive(fn): base is getApiBase(), f the completion of fn(base), which is
\* called (one fetch) only when a base resolves.  threw: tryLive itself
\* never rejects; reqs counts the fetches made.
tryLive(base, f) ==
    IF base = NoBase
    THEN [threw |-> FALSE, ok |-> FALSE, data |-> Return("null", NoNote, <<>>), reqs |-> 0]
    ELSE IF f.threw
         THEN [threw |-> FALSE, ok |-> FALSE, data |-> Return("null", NoNote, <<>>), reqs |-> 1]
         ELSE [threw |-> FALSE, ok |-> TRUE, data |-> f, reqs |-> 1]

----------------------------------------------------------------------------
(* Local store adapter.  storage is the localStorage slot STORAGE_KEY:     *)
(* kind "absent" (getItem returns null), "empty" (the empty string),       *)
(* "unparsable" (JSON.parse throws), "null" (parses to a falsy value that  *)
(* is no array), "object" (parses to a truthy value that is no array) or   *)
(* "array" (parses to an array of note objects, held in notes).            *)

Slot(kind, notes) == [kind |-> kind, notes |-> notes]

\* what readLocal hands back: the parsed value, typed Note[] but unchecked
Value(kind, notes) == [kind |-> kind, notes |-> notes]

\* localStorage.setItem(STORAGE_KEY, JSON.stringify(notes))
writeLocal(notes) == Slot("array", JSONstringify(notes))

SeedCreated1 == 86400000
SeedUpdated1 == 3600000
SeedCreated2 == 6000000
SeedUpdated2 == 1200000

\* seedInitial without its writeLocal(demo): the demo notes are returned
\* and the slot stays as it was
seedInitial_NoWrite(now, i1, i2) ==
    LET demo == << Note(i1, "Welcome to Notes",
                        "This is a demo note. You can edit or delete it.",
                        now - SeedCreated1, now - SeedUpdated1),
                   Note(i2, "Second Note",
                        "Use the + New Note button to create more.",
                        now - SeedCreated2, now - SeedUpdated2) >>
    IN  [val |-> Value("array", demo), st |-> Slot("absent", <<>>), seeded |-> TRUE]

\* the demo notes; i1 and i2 are the two results of genId()
seedInitial(now, i1, i2) ==
    LET demo == << Note(i1, "Welcome to Notes",
                        "This is a demo note. You can edit or delete it.",
                        now - SeedCreated1, now - SeedUpdated1),
                   Note(i2, "Second Note",
                        "Use the + New Note button to create more.",
                        now - SeedCreated2, now - SeedUpdated2) >>
    IN  [val |-> Value("array", demo), st |-> writeLocal(demo), seeded |-> TRUE]

\* readLocal that seeds a stored array holding no note, too
readLocal_SeedsEmptyArray(st, now, i1, i2) ==
    IF st.kind \in {"absent", "empty"} THEN seedInitial(now, i1, i2)
    ELSE IF st.kind = "unparsable" THEN seedInitial(now, i1, i2)
    ELSE IF st.kind = "array" /\ st.notes = <<>> THEN seedInitial(now, i1, i2)
    ELSE IF st.kind = "array"
         THEN [val |-> Value("array", JSONparse(st.notes)), st |-> st, seeded |-> FALSE]
         ELSE [val |-> Value(st.kind, <<>>), st |-> st, seeded |-> FALSE]

\* readLocal(): the value read and the slot afterwards (seeding writes it)
readLocal(st, now, i1, i2) ==
    IF st.kind \in {"absent", "empty"} THEN seedInitial(now, i1, i2)
    ELSE IF st.kind = "unparsable" THEN seedInitial(now, i1, i2)
    ELSE IF st.kind = "array"
         THEN [val |-> Value("array", JSONparse(st.notes)), st |-> st, seeded |-> FALSE]
         ELSE [val |-> Value(st.kind, <<>>), st |-> st, seeded |-> FALSE]

\* n.title ?? '', n.content ?? '', n.createdAt ?? Date.now(), n.updatedAt ?? Date.now()
normalizeNote(n, now) ==
    [n EXCEPT !.title = IF n.title = UndefS THEN "" ELSE n.title,
              !.content = IF n.content = UndefS THEN "" ELSE n.content,
              !.createdAt = IF n.createdAt = UndefN THEN now ELSE n.createdAt,
              !.updatedAt = IF n.updatedAt = UndefN THEN now ELSE n.updatedAt]

\* (list || []).map(...) on an array
normalize(list, now) ==
    [i \in 1..Len(list) |-> normalizeNote(list[i], now)]

\* b.updatedAt || 0
SortKey(n) == IF n.updatedAt = UndefN THEN 0 ELSE n.updatedAt

\* insert x behind every element the comparator does not put after it
RECURSIVE InsertDesc(_, _)
InsertDesc(sorted, x) ==
    IF sorted = <<>> THEN <<x>>
    ELSE IF SortKey(Head(sorted)) >= SortKey(x)
         THEN <<Head(sorted)>> \o InsertDesc(Tail(sorted), x)
         ELSE <<x>> \o sorted

\* Array.prototype.sort((a, b) => (b.updatedAt || 0) - (a.updatedAt || 0)): stable
RECURSIVE sortDesc(_)
sortDesc(list) ==
    IF list = <<>> THEN <<>>
    ELSE InsertDesc(sortDesc(SubSeq(list, 1, Len(list) - 1)), list[Len(list)])

\* notes.findIndex(n => n.id === id); 0 stands for -1
RECURSIVE findIndexFrom(_, _, _)
findIndexFrom(notes, id, i) ==
    IF i > Len(notes) THEN 0
    ELSE IF notes[i].id = id THEN i
    ELSE findIndexFrom(notes, id, i + 1)

findIndex(notes, id) == findIndexFrom(notes, id, 1)

\* notes.filter(n => n.id !== id)
filterOut(notes, id) == SelectSeq(notes, LAMBDA n : n.id # id)

----------------------------------------------------------------------------
(* The facade.  Each operator is one public operation from the point where *)
(* its live attempt has settled: base is getApiBase(), r the response of   *)
(* its fetch, st the slot, now0 the Date.now() the call captured before    *)
(* the await, now the Date.now() after it, i1 and i2 what genId() returns  *)
(* if the store is seeded and gid what it returns for a created note.      *)
(* The result is the call's completion together with: path ("live" or      *)
(* "local"), st (the slot afterwards), reqs (fetches made), read (readLocal*)
(* was called), seeded (seedInitial wrote the slot) and wrote (the         *)
(* operation itself called writeLocal).                                    *)

Outcome(c, path, st, reqs, read, seeded, wrote) ==
    [threw |-> c.threw, err |-> c.err, ret |-> c.ret, note |-> c.note,
     list |-> c.list, path |-> path, st |-> st, reqs |-> reqs,
     read |-> read, seeded |-> seeded, wrote |-> wrote]

\* a rejection of tryLive would propagate through the await
Rejected(live, st) ==
    Outcome(Throw("transport"), "live", st, live.reqs, FALSE, FALSE, FALSE)

Live(c, live, st) == Outcome(c, "live", st, live.reqs, FALSE, FALSE, FALSE)

Local(c, live, rd, st, wrote) ==
    Outcome(c, "local", st, live.reqs, TRUE, rd.seeded, wrote)

listNotes(base, r, st, now, i1, i2) ==
    LET live == tryLive(base, listLive(r))
        rd == readLocal(st, now, i1, i2)
    IN  IF live.threw THEN Rejected(live, st)
        ELSE IF live.ok
        THEN Live(Return("list", NoNote, normalize(live.data.list, now)), live, st)
        ELSE IF rd.val.kind = "array"
        THEN Local(Return("list", NoNote, sortDesc(normalize(rd.val.notes, now))),
                   live, rd, rd.st, FALSE)
        ELSE IF rd.val.kind = "null"
        THEN Local(Return("list", NoNote, <<>>), live, rd, rd.st, FALSE)
        ELSE Local(Throw("TypeError"), live, rd, rd.st, FALSE)

getNote(base, r, st, id, now, i1, i2) ==
    LET live == tryLive(base, getLive(r))
        rd == readLocal(st, now, i1, i2)
        idx == findIndex(rd.val.notes, id)
    IN  IF live.threw THEN Rejected(live, st)
        ELSE IF live.ok THEN Live(live.data, live, st)
        ELSE IF rd.val.kind # "array"
        THEN Local(Throw("TypeError"), live, rd, rd.st, FALSE)
        ELSE IF idx = 0
        THEN Local(Return("null", NoNote, <<>>), live, rd, rd.st, FALSE)
        ELSE Local(Return("note", rd.val.notes[idx], <<>>), live, rd, rd.st, FALSE)

\* { id: genId(), title: payload.title, content: payload.content || '', createdAt: now, updatedAt: now }
newNote(gid, payload, now0) ==
    Note(gid, payload.title,
         IF payload.content \in {UndefS, ""} THEN "" ELSE payload.content,
         now0, now0)

\* createNote whose local path stores the new note alone, dropping what
\* readLocal returned
createNote_DropsRead(base, r, st, payload, now0, now, i1, i2, gid) ==
    LET live == tryLive(base, createLive(r))
        rd == readLocal(st, now, i1, i2)
        note == newNote(gid, payload, now0)
    IN  IF live.threw THEN Rejected(live, st)
        ELSE IF live.ok THEN Live(live.data, live, st)
        ELSE IF rd.val.kind # "array"
        THEN Local(Throw("TypeError"), live, rd, rd.st, FALSE)
        ELSE Local(Return("note", note, <<>>), live, rd,
                   writeLocal(<<note>>), TRUE)

createNote(base, r, st, payload, now0, now, i1, i2, gid) ==
    LET live == tryLive(base, createLive(r))
        rd == readLocal(st, now, i1, i2)
        note == newNote(gid, payload, now0)
    IN  IF live.threw THEN Rejected(live, st)
        ELSE IF live.ok THEN Live(live.data, live, st)
        ELSE IF rd.val.kind # "array"
        THEN Local(Throw("TypeError"), live, rd, rd.st, FALSE)
        ELSE Local(Return("note", note, <<>>), live, rd,
                   writeLocal(Append(rd.val.notes, note)), TRUE)

\* mergeUpdate with || in place of ??: an empty title keeps the old one
mergeUpdate_TitleOr(old, payload, now0) ==
    [old EXCEPT !.title = IF payload.title \in {UndefS, ""} THEN old.title ELSE payload.title,
                !.content = IF payload.content = UndefS THEN old.content ELSE payload.content,
                !.updatedAt = now0]

\* { ...old, title: payload.title ?? old.title, content: payload.content ?? old.content, updatedAt: now }
mergeUpdate(old, payload, now0) ==
    [old EXCEPT !.title = IF payload.title = UndefS THEN old.title ELSE payload.title,
                !.content = IF payload.content = UndefS THEN old.content ELSE payload.content,
                !.updatedAt = now0]

updateNote(base, r, st, id, payload, now0, now, i1, i2) ==
    LET live == tryLive(base, updateLive(r))
        rd == readLocal(st, now, i1, i2)
        idx == findIndex(rd.val.notes, id)
        updated == mergeUpdate(rd.val.notes[idx], payload, now0)
    IN  IF live.threw THEN Rejected(live, st)
        ELSE IF live.ok THEN Live(live.data, live, st)
        ELSE IF rd.val.kind # "array"
        THEN Local(Throw("TypeError"), live, rd, rd.st, FALSE)
        ELSE IF idx = 0
        THEN Local(Throw("NotFound"), live, rd, rd.st, FALSE)
        ELSE Local(Return("note", updated, <<>>), live, rd,
                   writeLocal([rd.val.notes EXCEPT ![idx] = updated]), TRUE)

deleteNote(base, r, st, id, now, i1, i2) ==
    LET live == tryLive(base, deleteLive(r))
        rd == readLocal(st, now, i1, i2)
    IN  IF live.threw THEN Rejected(live, st)
        ELSE IF live.ok THEN Live(Return("void", NoNote, <<>>), live, st)
        ELSE IF rd.val.kind # "array"
        THEN Local(Throw("TypeError"), live, rd, rd.st, FALSE)
        ELSE Local(Return("void", NoNote, <<>>), live, rd,
                   writeLocal(filterOut(rd.val.notes, id)), TRUE)

----------------------------------------------------------------------------
(* State.                                                                  *)
(*   env      the three configuration sources getApiBase reads             *)
(*   storage  the localStorage slot                                        *)
(*   clock    Date.now()                                                   *)
(*   pending  the calls awaiting their live attempt, in the order started  *)
(*   started  how many calls were started                                  *)
(*   last     the call that completed last: its number, its arguments, the *)
(*            response it got, the slot before it resumed, its outcome     *)

NoPayload == [title |-> UndefS, content |-> UndefS]

\* a stored note written by a producer that omitted the optional fields
Legacy == Note("a", "Old", UndefS, UndefN, UndefN)

InitSlots ==
    { Slot("absent", <<>>), Slot("unparsable", <<>>),
      Slot("null", <<>>), Slot("object", <<>>),
      Slot("array", <<>>), writeLocal(<<Legacy>>) }

CreatePayloads == { [title |-> "T1", content |-> UndefS],
                    [title |-> "T1", content |-> "c1"] }

UpdatePayloads == { [title |-> "T2", content |-> UndefS],
                    [title |-> "", content |-> UndefS] }

\* genId() is called (twice) only when readLocal seeds the store
SeedIds(st) ==
    IF st.kind \in {"absent", "empty", "unparsable"}
    THEN GenIds \X GenIds
    ELSE {<<"a", "a">>}

\* a call in flight: its arguments, the Date.now() it captured (0 when it
\* captures none) and since, the number of calls completed when it began
PendingCall(op, id, payload, now0) ==
    [op |-> op, id |-> id, payload |-> payload, now0 |-> now0, since |-> last.seq]

NoCall ==
    [op |-> "none", id |-> UndefS, payload |-> NoPayload, now0 |-> 0, since |-> 0]

\* what the caller and the claims see of an outcome (the slot is storage)
Report(out) ==
    [threw |-> out.threw, err |-> out.err, ret |-> out.ret, note |-> out.note,
     list |-> out.list, path |-> out.path, reqs |-> out.reqs,
     read |-> out.read, seeded |-> out.seeded, wrote |-> out.wrote]

Completed(seq, c, r, before, out) ==
    [seq |-> seq, op |-> c.op, id |-> c.id, payload |-> c.payload,
     now0 |-> c.now0, since |-> c.since, resp |-> r, before |-> before,
     out |-> Report(out)]

NoOutcome ==
    Outcome(Return("void", NoNote, <<>>), "none", Slot("absent", <<>>),
            0, FALSE, FALSE, FALSE)

Init ==
    /\ env \in Envs
    /\ storage \in InitSlots
    /\ clock = T0
    /\ pending = <<>>
    /\ started = 0
    /\ last = Completed(0, NoCall, NoResponse, Slot("absent", <<>>), NoOutcome)

\* Date.now() advances
Tick ==
    /\ clock < T0 + MaxTicks
    /\ clock' = clock + 1
    /\ UNCHANGED <<env, storage, pending, started, last>>

\* the synchronous part of a call, up to `await tryLive(...)`
Begin(c) ==
    /\ started < MaxOps
    /\ Len(pending) < MaxPending
    /\ pending' = Append(pending, c)
    /\ started' = started + 1
    /\ UNCHANGED <<env, storage, clock, last>>

CallListNotes == Begin(PendingCall("listNotes", UndefS, NoPayload, 0))

CallGetNote == \E id \in GenIds : Begin(PendingCall("getNote", id, NoPayload, 0))

\* const now = Date.now() precedes the await
CallCreateNote ==
    \E p \in CreatePayloads : Begin(PendingCall("createNote", UndefS, p, clock))

CallUpdateNote ==
    \E id \in GenIds, p \in UpdatePayloads :
        Begin(PendingCall("updateNote", id, p, clock))

CallDeleteNote == \E id \in GenIds : Begin(PendingCall("deleteNote", id, NoPayload, 0))

\* The i-th pending call is the next to resume.  Without a base address
\* tryLive settles without any fetch, and the calls resume in the order
\* they were started; fetches settle in any order.
MayResume(i) ==
    /\ i \in 1..Len(pending)
    /\ getApiBase(env) = NoBase => i = 1

Remove(q, i) == SubSeq(q, 1, i - 1) \o SubSeq(q, i + 1, Len(q))

Complete(i, r, out) ==
    /\ storage' = out.st
    /\ last' = Completed(last.seq + 1, pending[i], r, storage, out)
    /\ pending' = Remove(pending, i)
    /\ UNCHANGED <<env, clock, started>>

ResumeListNotes ==
    \E i \in 1..Len(pending) :
        \E r \in Responses(getApiBase(env), RespsList),
           ids \in SeedIds(storage) :
            /\ MayResume(i)
            /\ pending[i].op = "listNotes"
            /\ Complete(i, r, listNotes(getApiBase(env), r, storage,
                                        clock, ids[1], ids[2]))

ResumeGetNote ==
    \E i \in 1..Len(pending) :
        \E r \in Responses(getApiBase(env), RespsGet),
           ids \in SeedIds(storage) :
            /\ MayResume(i)
            /\ pending[i].op = "getNote"
            /\ Complete(i, r, getNote(getApiBase(env), r, storage, pending[i].id,
                                      clock, ids[1], ids[2]))

ResumeCreateNote ==
    \E i \in 1..Len(pending) :
        \E r \in Responses(getApiBase(env), RespsCreate),
           ids \in SeedIds(storage),
           gid \in GenIds :
            /\ MayResume(i)
            /\ pending[i].op = "createNote"
            /\ Complete(i, r, createNote(getApiBase(env), r, storage,
                                         pending[i].payload, pending[i].now0,
                                         clock, ids[1], ids[2], gid))

ResumeUpdateNote ==
    \E i \in 1..Len(pending) :
        \E r \in Responses(getApiBase(env), RespsUpdate),
           ids \in SeedIds(storage) :
            /\ MayResume(i)
            /\ pending[i].op = "updateNote"
            /\ Complete(i, r, updateNote(getApiBase(env), r, storage, pending[i].id,
                                         pending[i].payload, pending[i].now0,
                                         clock, ids[1], ids[2]))

ResumeDeleteNote ==
    \E i \in 1..Len(pending) :
        \E r \in Responses(getApiBase(env), RespsDelete),
           ids \in SeedIds(storage) :
            /\ MayResume(i)
            /\ pending[i].op = "deleteNote"
            /\ Complete(i, r, deleteNote(getApiBase(env), r, storage, pending[i].id,
                                         clock, ids[1], ids[2]))

Next ==
    \/ Tick
    \/ CallListNotes
    \/ CallGetNote
    \/ CallCreateNote
    \/ CallUpdateNote
    \/ CallDeleteNote
    \/ ResumeListNotes
    \/ ResumeGetNote
    \/ ResumeCreateNote
    \/ ResumeUpdateNote
    \/ ResumeDeleteNote

\* any number of callers: a call may begin while others are in flight
Spec == Init /\ [][Next]_vars

\* the caller awaits no call
Idle == pending = <<>>

\* one caller that awaits each call before it makes the next
NextSeq ==
    \/ Tick
    \/ Idle /\ CallListNotes
    \/ Idle /\ CallGetNote
    \/ Idle /\ CallCreateNote
    \/ Idle /\ CallUpdateNote
    \/ Idle /\ CallDeleteNote
    \/ ResumeListNotes
    \/ ResumeGetNote
    \/ ResumeCreateNote
    \/ ResumeUpdateNote
    \/ ResumeDeleteNote

SpecSeq == Init /\ [][NextSeq]_vars

\* callers that only mutate, any number of them at once, all within one
\* millisecond of the clock
NextMut ==
    \/ CallCreateNote
    \/ CallUpdateNote
    \/ CallDeleteNote
    \/ ResumeCreateNote
    \/ ResumeUpdateNote
    \/ ResumeDeleteNote

SpecMut == Init /\ [][NextMut]_vars

----------------------------------------------------------------------------
(* What the claims speak of. *)

\* the records a completed call handed to its caller
Returned(c) ==
    IF c.out.threw THEN {}
    ELSE IF c.out.ret = "list" THEN {c.out.list[i] : i \in 1..Len(c.out.list)}
    ELSE IF c.out.ret = "note" THEN {c.out.note}
    ELSE {}

\* the slot holds an array in which some record has this id
Holds(st, id) ==
    /\ st.kind = "array"
    /\ \E i \in 1..Len(st.notes) : Prop(st.notes[i], "id") = id

\* the backend accepted the request: a 2xx status came back
Accepted(r) == ~r.net /\ r.status >= 200 /\ r.status <= 299

\* the remote attempt of a call failed: a network exception, a non-2xx
\* status other than the 404 of get and delete, or a body that is not JSON
LiveFailed(op, r) ==
    \/ r.net
    \/ ~Accepted(r) /\ ~(r.status = 404 /\ op \in {"getNote", "deleteNote"})
    \/ Accepted(r) /\ ~r.parsable /\ op # "deleteNote"

Mutations == {"createNote", "updateNote", "deleteNote"}

\* the local store was touched by the call that completed last
TouchedLocal == last.out.read \/ last.out.seeded \/ last.out.wrote

----------------------------------------------------------------------------
\* C1: the list listNotes returns is ordered by updatedAt descending, whether
\* it came from the live backend or from the local store.
C1_ListSortedOnEveryPath ==
    (last.op = "listNotes" /\ ~last.out.threw) =>
        \A i \in 1..Len(last.out.list), j \in 1..Len(last.out.list) :
            i < j => last.out.list[i].updatedAt >= last.out.list[j].updatedAt

\* C2: a mutating call whose remote request the backend accepted (2xx) does
\* not also write the local store.
C2_OnePathMutates ==
    (last.op \in Mutations /\ getApiBase(env) # NoBase /\ Accepted(last.resp)) =>
        (~last.out.wrote /\ ~last.out.seeded)

\* C3: every call makes at most one remote request, and none without a base
\* address; when no base resolves or the remote attempt fails, the call runs
\* on the local store (it reads it, and a completed delete leaves no record
\* with the id, a completed create leaves its record in the store) and
\* what it throws, if anything, is never the transport error.
C3_FallbackOnFailure ==
    last.seq > 0 =>
        /\ last.out.reqs <= 1
        /\ getApiBase(env) = NoBase => last.out.reqs = 0
        /\ getApiBase(env) # NoBase => last.out.reqs = 1
        /\ last.out.err # "transport"
        /\ (getApiBase(env) = NoBase \/ LiveFailed(last.op, last.resp)) =>
              /\ last.out.path = "local"
              /\ last.out.read
              /\ last.out.err \in {"none", "NotFound", "TypeError"}
              /\ (last.op = "deleteNote" /\ ~last.out.threw) =>
                    (storage.kind = "array" /\ ~Holds(storage, last.id))
              /\ (last.op = "createNote" /\ ~last.out.threw) =>
                    Holds(storage, last.out.note.id)

C3_Witness ==
    /\ getApiBase(env) # NoBase
    /\ last.op = "createNote"
    /\ last.resp = BadBody(500)
    /\ last.out.path = "local"
    /\ ~last.out.threw

\* C4: with a backend configured, a 404 answer to getNote yields null, does
\* not throw and leaves the local store alone: not read, not seeded, not
\* written.
C4_Get404IsAuthoritative ==
    (last.op = "getNote" /\ getApiBase(env) # NoBase
        /\ ~last.resp.net /\ last.resp.status = 404) =>
        /\ ~last.out.threw
        /\ last.out.ret = "null"
        /\ last.out.path = "live"
        /\ ~TouchedLocal
        /\ storage = last.before

C4_Witness ==
    /\ last.op = "getNote"
    /\ getApiBase(env) # NoBase
    /\ last.resp = BadBody(404)
    /\ last.id = "a"
    /\ Holds(last.before, "a")
    /\ last.out.ret = "null"

----------------------------------------------------------------------------
\* the first position of old at which the id stands
FirstOf(old, id) ==
    CHOOSE i \in 1..Len(old) :
        /\ old[i].id = id
        /\ \A j \in 1..(i - 1) : old[j].id # id

\* C5: a local-path updateNote(id, {title: T}) on a stored note sets its
\* title to T, keeps its id, content and createdAt, and leaves every other
\* stored record as it was.
C5_UpdateTitleFrame ==
    (last.op = "updateNote" /\ last.out.path = "local" /\ ~last.out.threw
        /\ last.before.kind = "array"
        /\ last.payload.title # UndefS /\ last.payload.content = UndefS) =>
        LET old == JSONparse(last.before.notes)
            new == JSONparse(storage.notes)
            idx == FirstOf(old, last.id)
        IN  /\ storage.kind = "array"
            /\ Len(new) = Len(old)
            /\ new[idx].title = last.payload.title
            /\ new[idx].id = old[idx].id
            /\ new[idx].content = old[idx].content
            /\ new[idx].createdAt = old[idx].createdAt
            /\ \A j \in 1..Len(old) : j # idx => new[j] = old[j]
            /\ last.out.note = new[idx]

C5_Witness ==
    /\ last.op = "updateNote"
    /\ last.out.path = "local"
    /\ ~last.out.threw
    /\ last.before.kind = "array"
    /\ Len(last.before.notes) = 2
    /\ last.payload.title = ""
    /\ last.id = Prop(last.before.notes[2], "id")
    /\ last.id # Prop(last.before.notes[1], "id")

----------------------------------------------------------------------------
\* C6: when two local-path updateNote calls on the same id complete one
\* after the other, the second does not lower the updatedAt of any stored
\* record (the clock never goes back).
C6_UpdatedAtNeverDecreases ==
    [][ ( /\ last.op = "updateNote" /\ last.out.path = "local" /\ ~last.out.threw
          /\ last'.seq = last.seq + 1
          /\ last'.op = "updateNote" /\ last'.out.path = "local" /\ ~last'.out.threw
          /\ last'.id = last.id )
        => \A i \in 1..Len(storage.notes) :
              Prop(storage'.notes[i], "updatedAt") >= Prop(storage.notes[i], "updatedAt") ]_vars

\* the content a created note is to have: the payload's, or '' when omitted
ContentOf(payload) == IF payload.content = UndefS THEN "" ELSE payload.content

\* C7: when a local-path createNote has returned a note and the next call is
\* a getNote of the returned id, begun after the createNote returned and run
\* on the local path, that getNote returns
\* a record with the payload's title and content and createdAt = updatedAt.
C7_CreateThenGet ==
    [][ ( /\ last.op = "createNote"
          /\ last.out.path = "local"
          /\ ~last.out.threw
          /\ last'.seq = last.seq + 1
          /\ last'.op = "getNote"
          /\ last'.since = last.seq
          /\ last'.id = last.out.note.id
          /\ last'.out.path = "local" )
        => ( /\ ~last'.out.threw
             /\ last'.out.ret = "note"
             /\ last'.out.note.title = last.payload.title
             /\ last'.out.note.content = ContentOf(last.payload)
             /\ last'.out.note.createdAt = last'.out.note.updatedAt ) ]_vars

\* C8: when a deleteNote(id) has returned and the next call is a deleteNote
\* of the same id, begun after the first returned, the second does not throw.
C8_DeleteTwiceNeverErrors ==
    [][ ( /\ last.op = "deleteNote"
          /\ ~last.out.threw
          /\ last'.seq = last.seq + 1
          /\ last'.op = "deleteNote"
          /\ last'.since = last.seq
          /\ last'.id = last.id )
        => ~last'.out.threw ]_vars

\* C9: getNote(id) for an id that no note has (the slot holds no record with
\* it, and the backend sent none) returns null and does not throw.
C9_GetMissingReturnsNull ==
    ( /\ last.op = "getNote"
      /\ ~Holds(storage, last.id)
      /\ ~(last.out.path = "live" /\ last.out.ret = "note") )
    => (~last.out.threw /\ last.out.ret = "null")

\* every field normalize fills is defined
Defined(n) ==
    /\ n.title # UndefS
    /\ n.content # UndefS
    /\ n.createdAt # UndefN
    /\ n.updatedAt # UndefN

\* C10: every record returned by listNotes and getNote, and by createNote and
\* updateNote on the local path, has a defined title, content, createdAt
\* and updatedAt.
C10_ReturnedNotesDefined ==
    ( \/ last.op \in {"listNotes", "getNote"}
      \/ last.op \in {"createNote", "updateNote"} /\ last.out.path = "local" )
    => \A n \in Returned(last) : Defined(n)

----------------------------------------------------------------------------
\* createdAt and updatedAt are both defined and createdAt is the later one
CreatedAfterUpdated(n) ==
    /\ n.createdAt # UndefN
    /\ n.updatedAt # UndefN
    /\ n.createdAt > n.updatedAt

\* C11: createdAt <= updatedAt in every record a call returns and in every
\* record of the local store, wherever both timestamps are defined.
C11_CreatedNotAfterUpdated ==
    /\ \A n \in Returned(last) : ~CreatedAfterUpdated(n)
    /\ storage.kind = "array" =>
          \A i \in 1..Len(storage.notes) :
              ~CreatedAfterUpdated(JSONparseNote(storage.notes[i]))

\* C12: no two records of the stored array have the same id.
C12_StoredIdsUnique ==
    storage.kind = "array" =>
        \A i \in 1..Len(storage.notes), j \in 1..Len(storage.notes) :
            i < j => Prop(storage.notes[i], "id") # Prop(storage.notes[j], "id")

----------------------------------------------------------------------------
\* the records of a sequence, as a set
Records(list) == {list[i] : i \in 1..Len(list)}

\* the slot holds exactly the two demo notes
HoldsDemoNotes(st) ==
    /\ st.kind = "array"
    /\ Len(st.notes) = 2
    /\ Prop(st.notes[1], "title") = "Welcome to Notes"
    /\ Prop(st.notes[2], "title") = "Second Note"

Reads == {"listNotes", "getNote"}

\* C13: with no base address, a read (listNotes or getNote) of a store whose
\* key is absent does not throw, writes exactly the two demo notes "Welcome
\* to Notes" and "Second Note" to the slot, and listNotes returns those two
\* records; the next read leaves the slot as it is, and its listNotes
\* returns the same two records and its getNote one of them or null.
C13_FirstReadSeeds ==
    [][ /\ ( /\ getApiBase(env) = NoBase
             /\ storage.kind \in {"absent", "empty"}
             /\ last'.seq = last.seq + 1
             /\ last'.op \in Reads )
           => ( /\ ~last'.out.threw
                /\ last'.out.seeded
                /\ HoldsDemoNotes(storage')
                /\ last'.op = "listNotes" =>
                      /\ Len(last'.out.list) = 2
                      /\ Records(last'.out.list) = Records(JSONparse(storage'.notes))
                /\ last'.op = "getNote" =>
                      \/ last'.out.ret = "null"
                      \/ last'.out.note \in Records(JSONparse(storage'.notes)) )
        /\ ( /\ getApiBase(env) = NoBase
             /\ last.op \in Reads
             /\ last.out.seeded
             /\ last'.seq = last.seq + 1
             /\ last'.since = last.seq
             /\ last'.op \in Reads )
           => ( /\ ~last'.out.threw
                /\ ~last'.out.seeded
                /\ storage' = storage
                /\ last'.op = "listNotes" =>
                      /\ Len(last'.out.list) = 2
                      /\ Records(last'.out.list) = Records(JSONparse(storage.notes))
                /\ last'.op = "getNote" =>
                      \/ last'.out.ret = "null"
                      \/ last'.out.note \in Records(JSONparse(storage.notes)) ) ]_vars

C13_Witness ==
    /\ getApiBase(env) = NoBase
    /\ last.seq = 2
    /\ last.op = "listNotes"
    /\ ~last.out.seeded
    /\ HoldsDemoNotes(last.before)
    /\ HoldsDemoNotes(storage)
    /\ Len(last.out.list) = 2
    /\ last.out.list[1].title = "Second Note"

----------------------------------------------------------------------------
\* C14: a local-path updateNote(id, payload) for an id that no stored note
\* has throws the "not found" error and leaves the store as a read just
\* before it would have left it: unchanged, or holding the two demo notes
\* when that read seeds it.
C14_UpdateMissingThrowsNotFound ==
    ( /\ last.op = "updateNote"
      /\ last.out.path = "local"
      /\ ~Holds(storage, last.id) )
    => ( /\ last.out.threw
         /\ last.out.err = "NotFound"
         /\ ~last.out.wrote
         /\ IF last.out.seeded THEN HoldsDemoNotes(storage)
                               ELSE storage = last.before )

----------------------------------------------------------------------------
\* C15: with no base address, when createNote has returned a note and the
\* next call is a listNotes begun after it returned, the list has the
\* created note at its first position.
C15_CreatedNoteRanksFirst ==
    [][ ( /\ getApiBase(env) = NoBase
          /\ last.op = "createNote"
          /\ ~last.out.threw
          /\ last'.seq = last.seq + 1
          /\ last'.op = "listNotes"
          /\ last'.since = last.seq )
        => ( /\ ~last'.out.threw
             /\ Len(last'.out.list) >= 1
             /\ last'.out.list[1] = last.out.note ) ]_vars

----------------------------------------------------------------------------
\* a call that ran a mutation on the local path and returned
LocalMutation(c) ==
    /\ c.op \in Mutations
    /\ c.out.path = "local"
    /\ ~c.out.threw

\* C16: a local-path mutation writes back the store it finds when it
\* resumes, changed by that mutation alone (createNote appends its note,
\* updateNote replaces the first record with the id, deleteNote removes the
\* records with the id), so a mutation completed while the call was in
\* flight is kept: of two concurrent local createNote calls both notes are
\* stored, and of two concurrent local updateNote calls on different ids
\* both updated records are stored.
C16_NoLostLocalMutation ==
    [][ ( /\ last'.seq = last.seq + 1
          /\ LocalMutation(last')
          /\ storage.kind = "array" )
        => LET cur == JSONparse(storage.notes)
               new == JSONparse(storage'.notes)
           IN  /\ storage'.kind = "array"
               /\ last'.op = "createNote" => new = Append(cur, last'.out.note)
               /\ last'.op = "updateNote" =>
                     /\ Len(new) = Len(cur)
                     /\ new[FirstOf(cur, last'.id)] = last'.out.note
                     /\ \A j \in 1..Len(cur) :
                           j # FirstOf(cur, last'.id) => new[j] = cur[j]
               /\ last'.op = "deleteNote" =>
                     new = SelectSeq(cur, LAMBDA n : n.id # last'.id)
               /\ ( /\ LocalMutation(last)
                    /\ last'.since < last.seq
                    /\ last.op = "createNote"
                    /\ last'.op = "createNote" )
                  => /\ last.out.note \in Records(new)
                     /\ last'.out.note \in Records(new)
                     /\ Len(new) >= 2
               /\ ( /\ LocalMutation(last)
                    /\ last'.since < last.seq
                    /\ last.op = "updateNote"
                    /\ last'.op = "updateNote"
                    /\ last.id # last'.id )
                  => /\ last.out.note \in Records(new)
                     /\ last'.out.note \in Records(new) ]_vars

\* two concurrent updateNote calls on different ids have completed on the
\* local path, the second of them begun before the first completed
C16_Witness ==
    /\ last.seq = 2
    /\ last.since = 0
    /\ last.op = "updateNote"
    /\ LocalMutation(last)
    /\ last.payload.title = "T2"
    /\ last.before.kind = "array"
    /\ \E i \in 1..Len(last.before.notes) :
          /\ Prop(last.before.notes[i], "id") # last.id
          /\ Prop(last.before.notes[i], "title") = "T2"
          /\ JSONparseNote(last.before.notes[i]) \in Records(JSONparse(storage.notes))

----------------------------------------------------------------------------
\* C17: a local-path deleteNote(id) does not throw; of a stored array it
\* removes the records with the id and keeps every other record, fields and
\* order unchanged, so the array is unchanged when no record has the id; of
\* a store it seeds, what is left are demo notes with another id.
C17_DeleteFrame ==
    (last.op = "deleteNote" /\ last.out.path = "local") =>
        /\ ~last.out.threw
        /\ storage.kind = "array"
        /\ ~Holds(storage, last.id)
        /\ last.before.kind = "array" =>
              /\ JSONparse(storage.notes) =
                    SelectSeq(JSONparse(last.before.notes), LAMBDA n : n.id # last.id)
              /\ ~Holds(last.before, last.id) => storage = last.before
        /\ last.out.seeded =>
              \A n \in Records(JSONparse(storage.notes)) :
                  n.title \in {"Welcome to Notes", "Second Note"}

----------------------------------------------------------------------------
\* C18: a call seeds the store only when the key is absent or its content
\* does not parse; a slot that holds an array, empty or not, still holds an
\* array after every call and is never seeded, and listNotes of a stored
\* empty array returns the empty list and leaves the array empty.
C18_SeededOnlyWhenAbsentOrUnparsable ==
    /\ last.out.seeded => last.before.kind \in {"absent", "empty", "unparsable"}
    /\ last.before.kind = "array" => (storage.kind = "array" /\ ~last.out.seeded)
    /\ (last.seq > 0 /\ last.before = Slot("array", <<>>)) =>
          \A n \in Records(JSONparse(storage.notes)) :
              n.title \notin {"Welcome to Notes", "Second Note"}
    /\ ( /\ last.op = "listNotes"
         /\ last.out.path = "local"
         /\ last.before = Slot("array", <<>>) )
       => ( /\ ~last.out.threw
            /\ last.out.list = <<>>
            /\ storage = Slot("array", <<>>) )

\* the second call is a local listNotes of an array that a call before it
\* left empty
C18_Witness ==
    /\ last.seq = 2
    /\ last.op = "listNotes"
    /\ last.out.path = "local"
    /\ last.before = Slot("array", <<>>)
    /\ last.out.list = <<>>
    /\ storage = Slot("array", <<>>)

----------------------------------------------------------------------------
\* the records the response of a call carries
Sent(r) == Records(r.list) \cup (IF r.note = NoNote THEN {} ELSE {r.note})

\* C19: a call whose live attempt succeeded (a 2xx with the body the call
\* needs, or the 404 of getNote and deleteNote) ran on the live path, did not
\* read, seed or write the slot, which is as it was, and every record it
\* returns is a record of the response, normalized in the case of listNotes.
C19_LiveSuccessLeavesLocalAlone ==
    ( /\ last.seq > 0
      /\ getApiBase(env) # NoBase
      /\ ~LiveFailed(last.op, last.resp) )
    => ( /\ last.out.path = "live"
         /\ ~last.out.threw
         /\ ~TouchedLocal
         /\ storage = last.before
         /\ last.op = "listNotes" =>
               \E now \in T0..clock : last.out.list = normalize(last.resp.list, now)
         /\ last.op # "listNotes" => Returned(last) \subseteq Sent(last.resp) )

\* deleteNote got a 404 for an id the local store holds, and the record is
\* still stored
C19_Witness ==
    /\ getApiBase(env) # NoBase
    /\ last.op = "deleteNote"
    /\ last.resp = BadBody(404)
    /\ Holds(last.before, last.id)
    /\ Holds(storage, last.id)
    /\ last.out.path = "live"

====
